---- MODULE Spec2Model ----
(***************************************************************************)
(* A model of the PayPal REST client: the token cache kept in Client       *)
(* (Token, tokenExpiresAt, guarded by the embedded mutex), the             *)
(* authenticated sender SendWithAuth, and the endpoint wrappers that call  *)
(* it.  Time is counted in seconds.                                        *)
(***************************************************************************)
EXTENDS Integers, Sequences, FiniteSets, TLC

\* ---------------------------------------------------------------- bounds
\* Total number of endpoint-wrapper invocations in one behaviour.
MaxCalls == 3
\* Number of clock ticks in one behaviour.
MaxTicks == 2

\* The callers (goroutines) that share one Client, and the seconds that may
\* pass in one clock tick.
Callers == {1, 2}
TickSteps == {30}

\* ------------------------------------------------------ program constants
\* RequestNewTokenBeforeExpiresIn = time.Duration(60) * time.Second
RequestNewTokenBeforeExpiresInNoUnit == 60 \div 1000000000
RequestNewTokenBeforeExpiresIn == 60

\* HeaderPreferRepresentation, and the value read when no header is set.
HeaderPreferRepresentation == "return=representation"
NoHeader == "none"

\* The embedded sync.Mutex of Client: NoCaller when unlocked, otherwise the
\* caller that holds it.  Lock blocks until the mutex is unlocked.
NoCaller == 0
CanLockAlways(holder) == TRUE
CanLock(holder) == holder = NoCaller

\* The lifetimes (expires_in, seconds) the token endpoint may report.
Lifetimes == {30, 90}

\* A cached *TokenResponse: nil, or the access token and its expires_in.
\* Access tokens are numbered in the order the token endpoint mints them.
NoToken == [Token |-> 0, ExpiresIn |-> 0]
TokenResponse(id, lifetime) == [Token |-> id, ExpiresIn |-> lifetime]

\* ------------------------------------------------------ endpoint wrappers
Wrappers ==
    { "GetAuthorization", "CaptureAuthorization", "VoidAuthorization",
      "ReauthorizeAuthorization", "RefundCapture", "UpdateTracking",
      "GetOrder", "CreateOrder", "UpdateOrder", "AuthorizeOrder",
      "CaptureOrder", "RefundPayment" }

\* The second argument of SendWithAuth: TRUE when the wrapper passes nil.
NilTargetNever(w) == FALSE
NilTarget(w) == w \in {"UpdateOrder", "VoidAuthorization"}

\* The Prefer header the wrapper sets on the request it builds.
PreferHeaderForRefunds(w) ==
    IF w \in {"RefundCapture", "CaptureAuthorization", "RefundPayment"}
    THEN HeaderPreferRepresentation ELSE NoHeader
PreferHeader(w) ==
    IF w \in {"RefundCapture", "CaptureAuthorization"}
    THEN HeaderPreferRepresentation ELSE NoHeader

\* CaptureAuthorization calls req.Header.Set before it tests err.
UsesRequestBeforeErrCheck(w) == w = "CaptureAuthorization"

\* Every wrapper returns right after its one call of SendWithAuth, whatever
\* error that call returned: TRUE would be a wrapper that calls it again.
CallsSenderAgainOnError(w, kind) == kind # "ok"
CallsSenderAgain(w, kind) == FALSE

\* ------------------------------------------------------------ responses
\* A response body: its form, and the error fields a JSON body carries.
Body(form, name, message, details) ==
    [form |-> form, name |-> name, message |-> message, details |-> details]
EmptyBody == Body("empty", "", "", <<>>)
MalformedBody == Body("malformed", "", "", <<>>)
ResourceBody == Body("json", "", "", <<>>)

\* What the remote service may answer to a payload request; transport is
\* TRUE when no response arrives at all (unreachable host, timeout).
Response(transport, status, body) ==
    [transport |-> transport, status |-> status, body |-> body]
NoResponse == Response(FALSE, 0, EmptyBody)
Responses ==
    { Response(TRUE, 0, EmptyBody),
      Response(FALSE, 200, ResourceBody),
      Response(FALSE, 200, MalformedBody),
      Response(FALSE, 204, EmptyBody),
      Response(FALSE, 400,
               Body("json", "INVALID_REQUEST", "not well-formed", <<"amount">>)),
      Response(FALSE, 500, MalformedBody) }

\* What the token endpoint may answer to a credential-grant request.
TokenOutcomes == {"ok", "status", "malformed", "transport"}

\* ErrorResponse: the HTTP response it was built from and the fields its
\* json tags take from the body.
ErrorResponseNoDetails(status, body) ==
    [Response |-> status, Name |-> body.name, Message |-> body.message,
     Details |-> <<>>]
ErrorResponse(status, body) ==
    [Response |-> status, Name |-> body.name, Message |-> body.message,
     Details |-> body.details]
NoErrorResponse == ErrorResponse(0, EmptyBody)

\* A nil *http.Response in the Response field.
NilResponse == 0
\* The Error field of a PayoutItemResponse decoded from a JSON body: the
\* tag json:"-" keeps the decoder from setting Response.
PayoutItemError(body) == ErrorResponse(NilResponse, body)

\* (*ErrorResponse).Error: the text of the status code and the message of
\* r; reading r.Response.Request of a nil Response panics.
ErrorString(panicked, status, message) ==
    [called |-> TRUE, panicked |-> panicked, status |-> status,
     message |-> message]
NotAsked == [called |-> FALSE, panicked |-> FALSE, status |-> 0, message |-> ""]
Error(r) ==
    IF r.Response = NilResponse THEN ErrorString(TRUE, 0, "")
    ELSE ErrorString(FALSE, r.Response, r.Message)

\* The outcome a wrapper hands to its caller.
Result(kind, err) == [kind |-> kind, err |-> err]
NoResult == Result("none", NoErrorResponse)

\* ------------------------------------------------- the authenticated sender
\* get_valid_token refreshes when no token is cached or the cached expiry
\* is less than RequestNewTokenBeforeExpiresIn after now.
NeedsRefreshIgnoringEmpty(tok, expiresAt, t) ==
    tok # NoToken /\ expiresAt - t < RequestNewTokenBeforeExpiresIn
NeedsRefresh(tok, expiresAt, t) ==
    tok = NoToken \/ expiresAt - t < RequestNewTokenBeforeExpiresIn

\* The cache after a refresh that failed: the token it held before.
TokenAfterFailedRefreshCleared(tok) == NoToken
TokenAfterFailedRefresh(tok) == tok

\* A failed refresh ends the send before anything is transmitted.
ContinuesAfterTokenError == FALSE
AbortsOnTokenError == TRUE

\* The lock is released when get_valid_token is over, before the payload
\* request is transmitted.
UnlocksAfterSend == FALSE
UnlocksBeforeSend == TRUE

\* The lock after a refresh of its holder g failed: released.
LockAfterFailedRefreshKept(holder, g) == holder
LockAfterFailedRefresh(holder, g) == IF holder = g THEN NoCaller ELSE holder

Is2xx(status) == status >= 200 /\ status <= 299

\* Send decodes the body of a 2xx response only into a target that is there.
Decodes(r, hasTarget) == ~r.transport /\ Is2xx(r.status) /\ hasTarget

\* The outcome of Send for response r.
SendResult(r, hasTarget) ==
    IF r.transport THEN Result("transport", NoErrorResponse)
    ELSE IF ~Is2xx(r.status)
         THEN Result("structured", ErrorResponse(r.status, r.body))
    ELSE IF hasTarget /\ r.body.form # "json"
         THEN Result("transport", NoErrorResponse)
    ELSE Result("ok", NoErrorResponse)

\* ------------------------------------------------------------ timestamps
\* Text is a sequence of one-character strings; s[i] of Go is s[i + 1] here.
DigitChars == {"0", "1", "2", "3", "4", "5", "6", "7", "8", "9"}
DigitValue(c) ==
    CASE c = "0" -> 0 [] c = "1" -> 1 [] c = "2" -> 2 [] c = "3" -> 3
      [] c = "4" -> 4 [] c = "5" -> 5 [] c = "6" -> 6 [] c = "7" -> 7
      [] c = "8" -> 8 [] c = "9" -> 9
DigitChar(n) ==
    CASE n = 0 -> "0" [] n = 1 -> "1" [] n = 2 -> "2" [] n = 3 -> "3"
      [] n = 4 -> "4" [] n = 5 -> "5" [] n = 6 -> "6" [] n = 7 -> "7"
      [] n = 8 -> "8" [] n = 9 -> "9"

\* strings.Contains(s, c) for a one-character c.
Contains(s, c) == \E i \in DOMAIN s : s[i] = c
\* s[from:] of Go.
From(s, from) == SubSeq(s, from + 1, Len(s))
IsDigit(s, i) == i < Len(s) /\ s[i + 1] \in DigitChars
AllDigits(s) == \A i \in DOMAIN s : s[i] \in DigitChars

\* The number a sequence of digits denotes.
RECURSIVE Number(_)
Number(s) ==
    IF s = <<>> THEN 0
    ELSE 10 * Number(SubSeq(s, 1, Len(s) - 1)) + DigitValue(s[Len(s)])

\* n written with `width` digits, zero padded.
RECURSIVE Padded(_, _)
Padded(n, width) ==
    IF width = 0 THEN <<>>
    ELSE Append(Padded(n \div 10, width - 1), DigitChar(n % 10))

\* The three layouts, as the chunks time.Parse and Time.Format cut them in:
\* a standard chunk (std) or literal text.
Std(text) == [std |-> TRUE, text |-> text]
Lit(text) == [std |-> FALSE, text |-> text]
DateFormatNoDot ==
    << Std("2006"), Lit("-"), Std("01"), Lit("-"), Std("02"), Lit("T"),
       Std("15"), Lit(":"), Std("04"), Lit(":"), Std("05"), Lit("Z") >>
DateFormat ==
    << Std("2006"), Lit("-"), Std("01"), Lit("-"), Std("02"), Lit("T"),
       Std("15"), Lit(":"), Std("04"), Lit(":"), Std("05"), Std(".000"),
       Lit("Z") >>
DateFormatWithOffset ==
    << Std("2006"), Lit("-"), Std("01"), Lit("-"), Std("02"), Lit("T"),
       Std("15"), Lit(":"), Std("04"), Lit(":"), Std("05"), Std("-07:00") >>

\* The calendar of package time.
IsLeap(year) == year % 4 = 0 /\ (year % 100 # 0 \/ year % 400 = 0)
DaysBeforeMonth(month, leap) ==
    LET before == <<0, 31, 59, 90, 120, 151, 181, 212, 243, 273, 304, 334, 365>>
    IN  before[month] + (IF leap /\ month > 2 THEN 1 ELSE 0)
DaysIn(month, year) ==
    DaysBeforeMonth(month + 1, IsLeap(year)) - DaysBeforeMonth(month, IsLeap(year))
\* Days from January 1 of year 1 to the given date.
DaysSinceEpoch(year, month, day) ==
    LET y == year - 1
    IN  365 * y + (y \div 4) - (y \div 100) + (y \div 400)
          + DaysBeforeMonth(month, IsLeap(year)) + day - 1

\* A time.Time: the instant, as whole days since January 1 of year 1 UTC,
\* the second of that day and the nanosecond, and the offset (seconds east
\* of UTC) of its location.
Time(day, sod, nsec, offset) ==
    [day |-> day, sod |-> sod, nsec |-> nsec, offset |-> offset]
ZeroTime == Time(0, 0, 0, 0)
IsZero(t) == t.day = 0 /\ t.sod = 0 /\ t.nsec = 0
\* Time.Equal: the same instant, whatever the locations.
Equal(t, u) == t.day = u.day /\ t.sod = u.sod /\ t.nsec = u.nsec

\* time.Date of the parsed fields in UTC, moved back by the parsed zone
\* offset: the instant of a wall clock read `offset` seconds east of UTC.
DateAddingOffset(year, month, day, hour, min, sec, nsec, offset) ==
    LET secs == hour * 3600 + min * 60 + sec + offset
    IN  Time(DaysSinceEpoch(year, month, day) + (secs \div 86400),
             secs % 86400, nsec, offset)
Date(year, month, day, hour, min, sec, nsec, offset) ==
    LET secs == hour * 3600 + min * 60 + sec - offset
    IN  Time(DaysSinceEpoch(year, month, day) + (secs \div 86400),
             secs % 86400, nsec, offset)

\* getnum: a one- or two-digit number; two digits exactly when fixed.
GetNum(s, fixed) ==
    IF ~IsDigit(s, 0) THEN [ok |-> FALSE, n |-> 0, rest |-> s]
    ELSE IF ~IsDigit(s, 1)
         THEN [ok |-> ~fixed, n |-> DigitValue(s[1]), rest |-> From(s, 1)]
    ELSE [ok |-> TRUE, n |-> 10 * DigitValue(s[1]) + DigitValue(s[2]),
          rest |-> From(s, 2)]

\* parseNanoseconds: a period and nbytes - 1 digits, as nanoseconds.
RECURSIVE Scale(_, _)
Scale(n, digits) == IF digits >= 9 THEN n ELSE Scale(10 * n, digits + 1)
FractionOK(s, nbytes) ==
    /\ Len(s) >= nbytes /\ nbytes >= 2 /\ nbytes <= 10
    /\ s[1] = "." /\ AllDigits(SubSeq(s, 2, nbytes))
NanosecondsUnscaled(s, nbytes) == Number(SubSeq(s, 2, nbytes))
Nanoseconds(s, nbytes) == Scale(Number(SubSeq(s, 2, nbytes)), nbytes - 1)

\* The length of the period-and-digits run at the head of s.
RECURSIVE FractionLength(_, _)
FractionLength(s, n) ==
    IF IsDigit(s, n) THEN FractionLength(s, n + 1) ELSE n

\* The seconds east of UTC that a sign, hours and minutes denote.
ZoneOffsetUnsigned(sign, hours, mins) == (hours * 60 + mins) * 60
ZoneOffset(sign, hours, mins) ==
    IF sign = "-" THEN 0 - (hours * 60 + mins) * 60 ELSE (hours * 60 + mins) * 60

\* What time.Parse has read so far; zoneOffset is -1 until a zone is read.
Parsed(ok, rest, f) == [ok |-> ok, rest |-> rest, f |-> f]
NoFields ==
    [year |-> 0, month |-> 1, day |-> 1, hour |-> 0, min |-> 0, sec |-> 0,
     nsec |-> 0, zoneOffset |-> 0 - 1]
Failed == Parsed(FALSE, <<>>, NoFields)

\* One standard chunk of the layout read from the head of the value; next
\* is the standard chunk that follows it in the layout ("" when none does).
ParseStd(chunk, next, p) ==
    LET v == p.rest
        f == p.f
        two == GetNum(v, chunk # "15")
    IN  CASE chunk = "2006" ->
               IF Len(v) >= 4 /\ AllDigits(SubSeq(v, 1, 4))
               THEN Parsed(TRUE, From(v, 4),
                           [f EXCEPT !.year = Number(SubSeq(v, 1, 4))])
               ELSE Failed
          [] chunk = "01" ->
               IF two.ok /\ two.n >= 1 /\ two.n <= 12
               THEN Parsed(TRUE, two.rest, [f EXCEPT !.month = two.n])
               ELSE Failed
          [] chunk = "02" ->
               IF two.ok
               THEN Parsed(TRUE, two.rest, [f EXCEPT !.day = two.n])
               ELSE Failed
          [] chunk = "15" ->
               IF two.ok /\ two.n < 24
               THEN Parsed(TRUE, two.rest, [f EXCEPT !.hour = two.n])
               ELSE Failed
          [] chunk = "04" ->
               IF two.ok /\ two.n < 60
               THEN Parsed(TRUE, two.rest, [f EXCEPT !.min = two.n])
               ELSE Failed
          [] chunk = "05" ->
               IF ~(two.ok /\ two.n < 60) THEN Failed
               ELSE IF Len(two.rest) >= 2 /\ two.rest[1] = "."
                        /\ IsDigit(two.rest, 1) /\ next # ".000"
                    \* a fraction in the value that the layout does not name
                    THEN LET n == FractionLength(two.rest, 2)
                         IN  IF n > 10 THEN Failed
                             ELSE Parsed(TRUE, From(two.rest, n),
                                         [f EXCEPT !.sec = two.n,
                                                   !.nsec = Nanoseconds(two.rest, n)])
                    ELSE Parsed(TRUE, two.rest, [f EXCEPT !.sec = two.n])
          [] chunk = ".000" ->
               IF FractionOK(v, 4)
               THEN Parsed(TRUE, From(v, 4), [f EXCEPT !.nsec = Nanoseconds(v, 4)])
               ELSE Failed
          [] chunk = "-07:00" ->
               IF /\ Len(v) >= 6 /\ v[4] = ":" /\ v[1] \in {"+", "-"}
                  /\ AllDigits(SubSeq(v, 2, 3)) /\ AllDigits(SubSeq(v, 5, 6))
               THEN Parsed(TRUE, From(v, 6),
                           [f EXCEPT !.zoneOffset =
                                ZoneOffset(v[1], Number(SubSeq(v, 2, 3)),
                                           Number(SubSeq(v, 5, 6)))])
               ELSE Failed

\* The chunks of the layout from the i-th on, read from the value.
RECURSIVE ParseChunks(_, _, _)
ParseChunks(layout, i, p) ==
    IF ~p.ok \/ i > Len(layout) THEN p
    ELSE LET c == layout[i]
             next == IF i < Len(layout) /\ layout[i + 1].std
                     THEN layout[i + 1].text ELSE ""
         IN  IF c.std
             THEN ParseChunks(layout, i + 1, ParseStd(c.text, next, p))
             ELSE IF p.rest # <<>> /\ p.rest[1] = c.text
                  THEN ParseChunks(layout, i + 1,
                                   Parsed(TRUE, Tail(p.rest), p.f))
                  ELSE Failed

\* time.Parse(layout, value): ok, and the time when ok.  A layout without
\* a zone gives UTC.
Parse(layout, value) ==
    LET p == ParseChunks(layout, 1, Parsed(TRUE, value, NoFields))
        f == p.f
        offset == IF f.zoneOffset = 0 - 1 THEN 0 ELSE f.zoneOffset
    IN  IF p.ok /\ p.rest = <<>> /\ f.day >= 1 /\ f.day <= DaysIn(f.month, f.year)
        THEN [ok |-> TRUE,
              time |-> Date(f.year, f.month, f.day, f.hour, f.min, f.sec,
                            f.nsec, offset)]
        ELSE [ok |-> FALSE, time |-> ZeroTime]

\* The date and clock a time shows in its own location.
Civil(t) ==
    LET secs == t.sod + t.offset
        d0 == t.day + (secs \div 86400)
        sod == secs % 86400
        n400 == d0 \div 146097
        d1 == d0 - 146097 * n400
        q100 == d1 \div 36524
        n100 == IF q100 = 4 THEN 3 ELSE q100
        d2 == d1 - 36524 * n100
        n4 == d2 \div 1461
        d3 == d2 - 1461 * n4
        q1 == d3 \div 365
        n1 == IF q1 = 4 THEN 3 ELSE q1
        yday == d3 - 365 * n1
        year == 1 + 400 * n400 + 100 * n100 + 4 * n4 + n1
        month == CHOOSE m \in 1 .. 12 :
                    /\ DaysBeforeMonth(m, IsLeap(year)) <= yday
                    /\ yday < DaysBeforeMonth(m + 1, IsLeap(year))
    IN  [year |-> year, month |-> month,
         day |-> yday - DaysBeforeMonth(month, IsLeap(year)) + 1,
         hour |-> sod \div 3600, min |-> (sod % 3600) \div 60, sec |-> sod % 60]

\* Time.Format: one chunk of the layout written for t.
FormatChunk(c, t) ==
    LET civil == Civil(t)
        east == IF t.offset < 0 THEN 0 - t.offset ELSE t.offset
    IN  IF ~c.std THEN <<c.text>>
        ELSE CASE c.text = "2006" -> Padded(civil.year, 4)
               [] c.text = "01" -> Padded(civil.month, 2)
               [] c.text = "02" -> Padded(civil.day, 2)
               [] c.text = "15" -> Padded(civil.hour, 2)
               [] c.text = "04" -> Padded(civil.min, 2)
               [] c.text = "05" -> Padded(civil.sec, 2)
               [] c.text = ".000" -> <<".">> \o Padded(t.nsec \div 1000000, 3)
               [] c.text = "-07:00" ->
                    << IF t.offset < 0 THEN "-" ELSE "+" >>
                      \o Padded(east \div 3600, 2) \o <<":">>
                      \o Padded((east % 3600) \div 60, 2)

RECURSIVE FormatChunks(_, _, _)
FormatChunks(layout, i, t) ==
    IF i > Len(layout) THEN <<>>
    ELSE FormatChunk(layout[i], t) \o FormatChunks(layout, i + 1, t)
Format(t, layout) == FormatChunks(layout, 1, t)


\* ------------------------------------------------------------------ PTime
\* The raw bytes handed to UnmarshalJSON, quotes included.
\* null  -- the JSON literal null
Null == << "n", "u", "l", "l" >>
\* ""  -- the empty JSON string
EmptyString == << "\"", "\"" >>
\* "0"  -- the JSON string "0"
QuotedZero == << "\"", "0", "\"" >>
\* (empty)  -- no bytes at all
NoBytes == << >>
\* 1  -- the JSON number 1
OneDigit == << "1" >>
\* .  -- one byte, a decimal point
OneDot == << "." >>
\* 12  -- the JSON number 12
TwoDigits == << "1", "2" >>
\* "not-a-date"
NotADate == << "\"", "n", "o", "t", "-", "a", "-", "d", "a", "t", "e", "\"" >>
\* "2018-08-15T19:14:04.543Z"  -- src/unnamed/part_001 line 17
RegularDate ==
    << "\"", "2", "0", "1", "8", "-", "0", "8", "-", "1", "5", "T", "1",
       "9", ":", "1", "4", ":", "0", "4", ".", "5", "4", "3", "Z", "\"" >>
\* "2018-08-15T19:14:04Z"  -- src/unnamed/part_001 line 40
DateNoDot ==
    << "\"", "2", "0", "1", "8", "-", "0", "8", "-", "1", "5",
       "T", "1", "9", ":", "1", "4", ":", "0", "4", "Z", "\"" >>
\* "2018-08-15T12:13:29-07:00"  -- src/unnamed/part_001 line 29
DateWithOffset ==
    << "\"", "2", "0", "1", "8", "-", "0", "8", "-", "1", "5", "T", "1", "2",
       ":", "1", "3", ":", "2", "9", "-", "0", "7", ":", "0", "0", "\"" >>
\* "2018-08-15T19:13:29Z"  -- the instant of DateWithOffset, in UTC
SameInstantNoDot ==
    << "\"", "2", "0", "1", "8", "-", "0", "8", "-", "1", "5",
       "T", "1", "9", ":", "1", "3", ":", "2", "9", "Z", "\"" >>
\* "2018-08-15T19:13:29.000Z"
SameInstantDot ==
    << "\"", "2", "0", "1", "8", "-", "0", "8", "-", "1", "5", "T", "1",
       "9", ":", "1", "3", ":", "2", "9", ".", "0", "0", "0", "Z", "\"" >>
\* "2018-08-16T00:43:29+05:30"
SameInstantEast ==
    << "\"", "2", "0", "1", "8", "-", "0", "8", "-", "1", "6", "T", "0", "0",
       ":", "4", "3", ":", "2", "9", "+", "0", "5", ":", "3", "0", "\"" >>
\* "2018-08-15T12:13:29.543-07:00"  -- a decimal point and no Z
FractionWithOffset ==
    << "\"", "2", "0", "1", "8", "-", "0", "8", "-", "1", "5", "T", "1", "2", ":", "1",
       "3", ":", "2", "9", ".", "5", "4", "3", "-", "0", "7", ":", "0", "0", "\"" >>
\* "2018-08-15T19:14:04.5Z"  -- one fractional digit
ShortFraction ==
    << "\"", "2", "0", "1", "8", "-", "0", "8", "-", "1", "5", "T",
       "1", "9", ":", "1", "4", ":", "0", "4", ".", "5", "Z", "\"" >>
\* "2018-08-15T9:14:04Z"
OneDigitHour ==
    << "\"", "2", "0", "1", "8", "-", "0", "8", "-", "1", "5",
       "T", "9", ":", "1", "4", ":", "0", "4", "Z", "\"" >>
\* "2018-02-30T10:00:00Z"  -- February 30
NoSuchDay ==
    << "\"", "2", "0", "1", "8", "-", "0", "2", "-", "3", "0",
       "T", "1", "0", ":", "0", "0", ":", "0", "0", "Z", "\"" >>
\* "0001-01-01T00:00:00Z"  -- the zero time, written out
YearOne ==
    << "\"", "0", "0", "0", "1", "-", "0", "1", "-", "0", "1",
       "T", "0", "0", ":", "0", "0", ":", "0", "0", "Z", "\"" >>
Inputs ==
    { Null, EmptyString, QuotedZero, NoBytes,
      OneDigit, OneDot, TwoDigits, NotADate, RegularDate,
      DateNoDot, DateWithOffset, SameInstantNoDot, SameInstantDot,
      SameInstantEast, FractionWithOffset, ShortFraction, OneDigitHour,
      NoSuchDay, YearOne }

\* sdata == `null` || sdata == `""` || sdata == `"0"`
IsAbsentNullOnly(sdata) == sdata = Null
IsAbsent(sdata) == sdata = Null \/ sdata = EmptyString \/ sdata = QuotedZero

\* The switch of UnmarshalJSON over noZ and noDot; format starts as
\* DateFormat and keeps it when no case applies.
SelectFormat(sdata) ==
    LET noZ == ~Contains(sdata, "Z")
        noDot == ~Contains(sdata, ".")
    IN  CASE noDot /\ noZ -> DateFormatWithOffset
          [] ~noDot /\ ~noZ -> DateFormat
          [] ~noZ /\ noDot -> DateFormatNoDot
          [] OTHER -> DateFormat
NoFormat == << >>

\* What a call of UnmarshalJSON leaves: the receiver's time, the layout it
\* selected (NoFormat when it returned before selecting) and how it ended:
\* "nil", "error" (the error of time.Parse) or "panic".
Outcome(t, format, err) == [t |-> t, format |-> format, err |-> err]

\* (*PTime).UnmarshalJSON on a receiver holding t.  sdata[1:len(sdata)-1]
\* panics when sdata has fewer than two bytes.
Sliced(data) == SubSeq(data, 2, Len(data) - 1)
ParsingZeroOnError(t, format, parsed) ==
    Outcome(parsed.time, format, IF parsed.ok THEN "nil" ELSE "error")
Parsing(t, format, parsed) ==
    IF parsed.ok THEN Outcome(parsed.time, format, "nil")
    ELSE Outcome(t, format, "error")
\* The early return for an absent input.
AbsentOutcomeZeroed(t) == Outcome(ZeroTime, NoFormat, "nil")
AbsentOutcome(t) == Outcome(t, NoFormat, "nil")
UnmarshalJSONKeepingSet(t, data) ==
    IF IsAbsent(data) \/ ~IsZero(t) THEN AbsentOutcome(t)
    ELSE IF Len(data) < 2 THEN Outcome(t, SelectFormat(data), "panic")
    ELSE Parsing(t, SelectFormat(data), Parse(SelectFormat(data), Sliced(data)))
UnmarshalJSON(t, data) ==
    IF IsAbsent(data) THEN AbsentOutcome(t)
    ELSE IF Len(data) < 2 THEN Outcome(t, SelectFormat(data), "panic")
    ELSE Parsing(t, SelectFormat(data), Parse(SelectFormat(data), Sliced(data)))

\* A *PTime: nil, or a pointer to a PTime holding t.
Pointer(t) == [nil |-> FALSE, time |-> t]
NilPTime == [nil |-> TRUE, time |-> ZeroTime]

\* (*PTime).String on the receiver p.
StringNoDot(p) ==
    IF p.nil \/ IsZero(p.time) THEN << >> ELSE Format(p.time, DateFormatNoDot)
String(p) ==
    IF p.nil \/ IsZero(p.time) THEN << >> ELSE Format(p.time, DateFormat)

\* -------------------------------------------------------- expirationTime
\* The raw bytes of an expires_in value.
\* 3600
Bare3600 == << "3", "6", "0", "0" >>
\* "3600"
Quoted3600 == << "\"", "3", "6", "0", "0", "\"" >>
\* 90
Bare90 == << "9", "0" >>
\* "90"
Quoted90 == << "\"", "9", "0", "\"" >>
\* -5
BareMinus5 == << "-", "5" >>
\* "-5"
QuotedMinus5 == << "\"", "-", "5", "\"" >>
\* 0
BareZero == << "0" >>
\* 3600.5
BareFraction == << "3", "6", "0", "0", ".", "5" >>
\* "3600.5"
QuotedFraction == << "\"", "3", "6", "0", "0", ".", "5", "\"" >>
\* 1e3
BareExponent == << "1", "e", "3" >>
\* "abc"
QuotedWord == << "\"", "a", "b", "c", "\"" >>
\* abc
BareWord == << "a", "b", "c" >>
\* (empty)
NoLifetime == << >>
\* null
NullLifetime == << "n", "u", "l", "l" >>
\* true
TrueLifetime == << "t", "r", "u", "e" >>
\* ""
QuotedNothing == << "\"", "\"" >>
\* 9223372036854775807
BareMaxInt64 ==
    << "9", "2", "2", "3", "3", "7", "2", "0", "3", "6",
       "8", "5", "4", "7", "7", "5", "8", "0", "7" >>
\* "9223372036854775807"
QuotedMaxInt64 ==
    << "\"", "9", "2", "2", "3", "3", "7", "2", "0", "3", "6",
       "8", "5", "4", "7", "7", "5", "8", "0", "7", "\"" >>
\* 9223372036854775808
BareOverMaxInt64 ==
    << "9", "2", "2", "3", "3", "7", "2", "0", "3", "6",
       "8", "5", "4", "7", "7", "5", "8", "0", "8" >>
\* "9223372036854775808"
QuotedOverMaxInt64 ==
    << "\"", "9", "2", "2", "3", "3", "7", "2", "0", "3", "6",
       "8", "5", "4", "7", "7", "5", "8", "0", "8", "\"" >>
\* -9223372036854775808
BareMinInt64 ==
    << "-", "9", "2", "2", "3", "3", "7", "2", "0", "3",
       "6", "8", "5", "4", "7", "7", "5", "8", "0", "8" >>
\* -9223372036854775809
BareUnderMinInt64 ==
    << "-", "9", "2", "2", "3", "3", "7", "2", "0", "3",
       "6", "8", "5", "4", "7", "7", "5", "8", "0", "9" >>
Lifetimes64 ==
    { Bare3600, Quoted3600, Bare90,
      Quoted90, BareMinus5, QuotedMinus5,
      BareZero, BareFraction, QuotedFraction,
      BareExponent, QuotedWord, BareWord,
      NoLifetime, NullLifetime, TrueLifetime,
      QuotedNothing, BareMaxInt64, QuotedMaxInt64,
      BareOverMaxInt64, QuotedOverMaxInt64, BareMinInt64,
      BareUnderMinInt64 }

\* An int64, as its sign and its decimal digits without leading zeros.
Int64(neg, digits) == [neg |-> neg /\ digits # <<"0">>, digits |-> digits]
MaxInt64 == 
    << "9", "2", "2", "3", "3", "7", "2", "0",
       "3", "6", "8", "5", "4", "7", "7", "5", "8", "0", "7" >>
MinInt64Magnitude == 
    << "9", "2", "2", "3", "3", "7", "2", "0",
       "3", "6", "8", "5", "4", "7", "7", "5", "8", "0", "8" >>

\* The index (from 0) of the first byte of s, at or after i, that is not a
\* digit.
RECURSIVE ScanDigits(_, _)
ScanDigits(s, i) == IF IsDigit(s, i) THEN ScanDigits(s, i + 1) ELSE i
At(s, i) == IF i < Len(s) THEN s[i + 1] ELSE ""

\* encoding/json: s is a number of the JSON grammar.
ValidNumber(s) ==
    LET i0 == IF At(s, 0) = "-" THEN 1 ELSE 0
        i1 == IF At(s, i0) = "0" THEN i0 + 1 ELSE ScanDigits(s, i0)
        i2 == IF At(s, i1) = "." THEN ScanDigits(s, i1 + 1) ELSE i1
        e0 == IF At(s, i2 + 1) \in {"+", "-"} THEN i2 + 2 ELSE i2 + 1
        i3 == IF At(s, i2) \in {"e", "E"} THEN ScanDigits(s, e0) ELSE i2
    IN  /\ i1 > i0
        /\ At(s, i1) = "." => i2 > i1 + 1
        /\ At(s, i2) \in {"e", "E"} => i3 > e0
        /\ i3 = Len(s)

\* A JSON string without escapes.
PlainString(b) ==
    /\ Len(b) >= 2 /\ b[1] = "\"" /\ b[Len(b)] = "\""
    /\ \A i \in 2 .. Len(b) - 1 : b[i] \notin {"\"", "\\"}

\* var n json.Number; err := json.Unmarshal(b, &n): a number literal, or a
\* string holding one, is stored as its text; null leaves n empty; anything
\* else is an error.
Number64(ok, n) == [ok |-> ok, n |-> n]
UnmarshalNumberUnquotedOnly(b) ==
    IF ValidNumber(b) THEN Number64(TRUE, b)
    ELSE IF b = NullLifetime THEN Number64(TRUE, << >>)
    ELSE Number64(FALSE, << >>)
UnmarshalNumber(b) ==
    IF ValidNumber(b) THEN Number64(TRUE, b)
    ELSE IF PlainString(b) /\ ValidNumber(SubSeq(b, 2, Len(b) - 1))
         THEN Number64(TRUE, SubSeq(b, 2, Len(b) - 1))
    ELSE IF b = NullLifetime THEN Number64(TRUE, << >>)
    ELSE Number64(FALSE, << >>)

\* d and limit are digits without leading zeros: d denotes more than limit.
RECURSIVE Above(_, _)
Above(d, limit) ==
    IF Len(d) # Len(limit) THEN Len(d) > Len(limit)
    ELSE IF d = << >> THEN FALSE
    ELSE IF d[1] # limit[1] THEN DigitValue(d[1]) > DigitValue(limit[1])
    ELSE Above(Tail(d), Tail(limit))
RECURSIVE StripZeros(_)
StripZeros(d) ==
    IF Len(d) > 1 /\ d[1] = "0" THEN StripZeros(Tail(d)) ELSE d

\* n.Int64(): strconv.ParseInt(string(n), 10, 64).
ParseInt(n) ==
    LET signed == At(n, 0) \in {"+", "-"}
        neg == At(n, 0) = "-"
        d == IF signed THEN Tail(n) ELSE n
    IN  IF d = << >> \/ ~AllDigits(d) THEN [ok |-> FALSE, i |-> Int64(FALSE, <<"0">>)]
        ELSE IF Above(StripZeros(d), IF neg THEN MinInt64Magnitude ELSE MaxInt64)
             THEN [ok |-> FALSE, i |-> Int64(FALSE, <<"0">>)]
        ELSE [ok |-> TRUE, i |-> Int64(neg, StripZeros(d))]

\* (*expirationTime).UnmarshalJSON on a receiver holding e.
Decoded(e, failed) == [e |-> e, err |-> IF failed THEN "error" ELSE "nil"]
ExpirationTimeUnmarshalJSON(e, b) ==
    IF ~UnmarshalNumber(b).ok THEN Decoded(e, TRUE)
    ELSE IF ~ParseInt(UnmarshalNumber(b).n).ok THEN Decoded(e, TRUE)
    ELSE Decoded(ParseInt(UnmarshalNumber(b).n).i, FALSE)

\* ------------------------------------------------------------------ state
VARIABLES
    now,            \* the clock, in seconds
    ticks,          \* clock ticks taken so far
    Token,          \* Client.Token
    tokenExpiresAt, \* Client.tokenExpiresAt (0 is the zero time)
    mutex,          \* Client's embedded sync.Mutex: its holder
    pc,             \* where each caller is
    op,             \* the endpoint wrapper each caller is in
    req,            \* the request each caller has built
    tokenResp,      \* the token response each refreshing caller has decoded
    result,         \* the outcome of each caller's wrapper call
    calls,          \* wrapper invocations so far
    minted,         \* access tokens minted by the token endpoint so far
    \* history of the current call of each caller, and of the refreshes
    resp,           \* the response its payload request got
    decoded,        \* whether Send decoded the body
    refreshCount,   \* refresh requests it issued
    sendCount,      \* payload requests it transmitted
    senderCalls,    \* calls of SendWithAuth it made
    checked,        \* what the expiry check saw
    obtained,       \* the cache when its get_valid_token returned
    waited,         \* until its check: the refresh in flight when it arrived
    refreshedAt,    \* per minted token, the instant its refresh completed
    failedSince,    \* a refresh failed and none has succeeded since
    errText         \* what Error() gave each caller for the error it was handed

senderVars ==
    << now, ticks, Token, tokenExpiresAt, mutex, pc, op, req, tokenResp,
       result, calls, minted, resp, decoded, refreshCount, sendCount,
       senderCalls, checked, obtained, waited, refreshedAt, failedSince,
       errText >>

\* A PTime of the program, and what was last done to it.
VARIABLES
    ptime,          \* the time.Time embedded in the PTime
    sdata,          \* the bytes of the last UnmarshalJSON on it
    format,         \* the layout that call selected
    err,            \* how that call ended ("none" before any call)
    before,         \* the PTime and its last call, as that call found them
    str             \* what String returned since, if it was called

timeVars == << ptime, sdata, format, err, before, str >>

\* The ExpiresIn of a TokenResponse being decoded, and the last decoding.
VARIABLES
    expiresIn,      \* the expirationTime held
    raw,            \* the bytes of the last UnmarshalJSON on it
    decodeErr,      \* how that call ended ("none" before any call)
    held            \* the expirationTime and its last call, as that call found them

decodeVars == << expiresIn, raw, decodeErr, held >>
vars == << senderVars, timeVars, decodeVars >>

clientVars == << Token, tokenExpiresAt >>
clockVars == << now, ticks >>

Cache(tok, expiresAt) == [Token |-> tok, tokenExpiresAt |-> expiresAt]
NoCache == Cache(NoToken, 0)
Request(prefer, authorization, hasTarget) ==
    [Prefer |-> prefer, Authorization |-> authorization, hasTarget |-> hasTarget]
NoRequest == Request(NoHeader, 0, FALSE)
\* What an expiry check saw: the cached token and the seconds from now to the
\* cached expiry.
Checked(done, tok, expiresAt, t) ==
    [done |-> done, Token |-> tok, remaining |-> expiresAt - t]
NotChecked == Checked(FALSE, NoToken, 0, 0)

\* What became of the refresh that was in flight when a caller arrived: none
\* was, it is still in flight, it failed, or the number of the token it cached.
Waited(state, id) == [state |-> state, Token |-> id]
NotWaited == Waited("none", 0)
Refreshing(g) == pc[g] \in {"refresh", "store", "expiry"}
RefreshEnds(outcome) ==
    [h \in Callers |-> IF waited[h].state = "pending" THEN outcome ELSE waited[h]]

\* What String returned, and what a call of UnmarshalJSON found.
Text(text, p) == [called |-> TRUE, text |-> text, nil |-> p.nil]
NotCalled == [called |-> FALSE, text |-> << >>, nil |-> FALSE]
Before(t, data, e) == [t |-> t, sdata |-> data, err |-> e]
Held(e, b, failure) == [e |-> e, raw |-> b, err |-> failure]

\* A panic that nothing recovers ends the program.
Crashed ==
    \/ \E g \in Callers : pc[g] = "panicked"
    \/ err = "panic"
    \/ \E g \in Callers : errText[g].panicked

\* NewClient: no token is cached.
Init ==
    /\ now = 0 /\ ticks = 0
    /\ Token = NoToken /\ tokenExpiresAt = 0
    /\ mutex = NoCaller
    /\ pc = [g \in Callers |-> "idle"]
    /\ op = [g \in Callers |-> "none"]
    /\ req = [g \in Callers |-> NoRequest]
    /\ tokenResp = [g \in Callers |-> NoToken]
    /\ result = [g \in Callers |-> NoResult]
    /\ calls = 0 /\ minted = 0
    /\ resp = [g \in Callers |-> NoResponse]
    /\ decoded = [g \in Callers |-> FALSE]
    /\ refreshCount = [g \in Callers |-> 0]
    /\ sendCount = [g \in Callers |-> 0]
    /\ senderCalls = [g \in Callers |-> 0]
    /\ checked = [g \in Callers |-> NotChecked]
    /\ obtained = [g \in Callers |-> NoToken]
    /\ waited = [g \in Callers |-> NotWaited]
    /\ refreshedAt = << >>
    /\ failedSince = FALSE
    /\ errText = [g \in Callers |-> NotAsked]
    /\ ptime = ZeroTime
    /\ sdata = << >>
    /\ format = NoFormat
    /\ err = "none"
    /\ before = Before(ZeroTime, << >>, "none")
    /\ str = NotCalled
    /\ expiresIn = Int64(FALSE, <<"0">>)
    /\ raw = << >>
    /\ decodeErr = "none"
    /\ held = Held(Int64(FALSE, <<"0">>), << >>, "none")

\* ---------------------------------------------------------------- actions
\* The wrapper's caller gets `r`, unless the wrapper calls the sender again.
WrapperEnds(g, r) ==
    IF CallsSenderAgain(op[g], r.kind)
    THEN /\ pc' = [pc EXCEPT ![g] = "lock"]
         /\ senderCalls' = [senderCalls EXCEPT ![g] = @ + 1]
         /\ result' = result
    ELSE /\ pc' = [pc EXCEPT ![g] = "done"]
         /\ senderCalls' = senderCalls
         /\ result' = [result EXCEPT ![g] = r]

\* Caller g enters wrapper w, which builds its request (built = FALSE: the
\* construction returns an error) and, with a request, calls SendWithAuth.
Call(g, w, built) ==
    /\ ~Crashed
    /\ UNCHANGED << timeVars, decodeVars, errText >>
    /\ pc[g] = "idle"
    /\ calls < MaxCalls
    /\ calls' = calls + 1
    /\ op' = [op EXCEPT ![g] = w]
    /\ IF built
       THEN /\ req' = [req EXCEPT ![g] = Request(PreferHeader(w), 0, ~NilTarget(w))]
            /\ senderCalls' = [senderCalls EXCEPT ![g] = 1]
            /\ pc' = [pc EXCEPT ![g] = "lock"]
            /\ result' = result
       ELSE /\ req' = req
            /\ senderCalls' = senderCalls
            /\ IF UsesRequestBeforeErrCheck(w)
               THEN /\ pc' = [pc EXCEPT ![g] = "panicked"]
                    /\ result' = result
               ELSE /\ pc' = [pc EXCEPT ![g] = "done"]
                    /\ result' = [result EXCEPT ![g] = Result("build", NoErrorResponse)]
    /\ waited' = [waited EXCEPT ![g] =
                      IF built /\ \E h \in Callers \ {g} : Refreshing(h)
                      THEN Waited("pending", 0) ELSE NotWaited]
    /\ UNCHANGED << clockVars, clientVars, mutex, tokenResp, minted, resp,
                    decoded, refreshCount, sendCount, checked,
                    obtained, refreshedAt, failedSince >>

\* SendWithAuth: take the token lock.
Lock(g) ==
    /\ ~Crashed
    /\ UNCHANGED << timeVars, decodeVars, errText >>
    /\ pc[g] = "lock"
    /\ CanLock(mutex)
    /\ mutex' = g
    /\ pc' = [pc EXCEPT ![g] = "check"]
    /\ UNCHANGED << clockVars, clientVars, op, req, tokenResp, result, calls,
                    minted, resp, decoded, refreshCount, sendCount,
                    senderCalls, checked, obtained, refreshedAt, failedSince, waited >>

\* get_valid_token: check the cached expiry; either issue a credential-grant
\* request, or attach the cached token and leave the critical section.
Check(g) ==
    /\ ~Crashed
    /\ UNCHANGED << timeVars, decodeVars, errText >>
    /\ pc[g] = "check"
    /\ checked' = [checked EXCEPT ![g] = Checked(TRUE, Token, tokenExpiresAt, now)]
    /\ waited' = [waited EXCEPT ![g] = NotWaited]
    /\ IF NeedsRefresh(Token, tokenExpiresAt, now)
       THEN /\ refreshCount' = [refreshCount EXCEPT ![g] = @ + 1]
            /\ pc' = [pc EXCEPT ![g] = "refresh"]
            /\ UNCHANGED << req, obtained, mutex >>
       ELSE /\ req' = [req EXCEPT ![g].Authorization = Token.Token]
            /\ obtained' = [obtained EXCEPT ![g] = Token]
            /\ mutex' = IF UnlocksBeforeSend THEN NoCaller ELSE mutex
            /\ pc' = [pc EXCEPT ![g] = "send"]
            /\ refreshCount' = refreshCount
    /\ UNCHANGED << clockVars, clientVars, op, tokenResp, result, calls,
                    minted, resp, decoded, sendCount, senderCalls,
                    refreshedAt, failedSince >>

\* The token endpoint answers g's credential-grant request.
TokenEndpointResponds(g, outcome, lifetime) ==
    /\ ~Crashed
    /\ UNCHANGED << timeVars, decodeVars, errText >>
    /\ pc[g] = "refresh"
    /\ IF outcome = "ok"
       THEN /\ minted' = minted + 1
            /\ tokenResp' = [tokenResp EXCEPT ![g] = TokenResponse(minted + 1, lifetime)]
            /\ pc' = [pc EXCEPT ![g] = "store"]
            /\ UNCHANGED << Token, mutex, result, senderCalls, failedSince,
                            waited >>
       ELSE /\ Token' = TokenAfterFailedRefresh(Token)
            /\ failedSince' = TRUE
            /\ waited' = RefreshEnds(Waited("failed", 0))
            /\ UNCHANGED << minted, tokenResp >>
            /\ IF AbortsOnTokenError
               THEN /\ mutex' = LockAfterFailedRefresh(mutex, g)
                    /\ WrapperEnds(g, Result("token", NoErrorResponse))
               ELSE /\ mutex' = IF UnlocksBeforeSend /\ mutex = g
                                THEN NoCaller ELSE mutex
                    /\ pc' = [pc EXCEPT ![g] = "send"]
                    /\ UNCHANGED << result, senderCalls >>
    /\ UNCHANGED << clockVars, tokenExpiresAt, op, req, calls, resp, decoded,
                    refreshCount, sendCount, checked, obtained,
                    refreshedAt >>

\* The refresh stores the new token ...
StoreToken(g) ==
    /\ ~Crashed
    /\ UNCHANGED << timeVars, decodeVars, errText >>
    /\ pc[g] = "store"
    /\ Token' = tokenResp[g]
    /\ pc' = [pc EXCEPT ![g] = "expiry"]
    /\ UNCHANGED << clockVars, tokenExpiresAt, mutex, op, req, tokenResp,
                    result, calls, minted, resp, decoded, refreshCount,
                    sendCount, senderCalls, checked, obtained,
                    refreshedAt, failedSince, waited >>

\* ... and then its expiry, now + the lifetime the server reported; the
\* sender attaches the cached token and leaves the critical section.
StoreExpiry(g) ==
    /\ ~Crashed
    /\ UNCHANGED << timeVars, decodeVars, errText >>
    /\ pc[g] = "expiry"
    /\ tokenExpiresAt' = now + tokenResp[g].ExpiresIn
    /\ refreshedAt' = [i \in {tokenResp[g].Token} \cup
                                 ({Token.Token} \cap DOMAIN refreshedAt) |->
                          IF i = tokenResp[g].Token THEN now ELSE refreshedAt[i]]
    /\ failedSince' = FALSE
    /\ waited' = RefreshEnds(Waited("cached", tokenResp[g].Token))
    /\ req' = [req EXCEPT ![g].Authorization = Token.Token]
    /\ obtained' = [obtained EXCEPT ![g] = Token]
    /\ mutex' = IF UnlocksBeforeSend /\ mutex = g THEN NoCaller ELSE mutex
    /\ pc' = [pc EXCEPT ![g] = "send"]
    /\ UNCHANGED << clockVars, Token, op, tokenResp, result, calls, minted,
                    resp, decoded, refreshCount, sendCount, senderCalls,
                    checked >>

\* Send: the payload request goes out.
Transmit(g) ==
    /\ ~Crashed
    /\ UNCHANGED << timeVars, decodeVars, errText >>
    /\ pc[g] = "send"
    /\ sendCount' = [sendCount EXCEPT ![g] = @ + 1]
    /\ pc' = [pc EXCEPT ![g] = "await"]
    /\ UNCHANGED << clockVars, clientVars, mutex, op, req, tokenResp, result,
                    calls, minted, resp, decoded, refreshCount, senderCalls,
                    checked, obtained, refreshedAt, failedSince, waited >>

\* Send: the answer r arrives (or the transport fails); the body is decoded
\* and the outcome goes back through SendWithAuth to the wrapper.
Respond(g, r) ==
    /\ ~Crashed
    /\ UNCHANGED << timeVars, decodeVars, errText >>
    /\ pc[g] = "await"
    /\ resp' = [resp EXCEPT ![g] = r]
    /\ decoded' = [decoded EXCEPT ![g] = Decodes(r, req[g].hasTarget)]
    /\ mutex' = IF mutex = g THEN NoCaller ELSE mutex
    /\ WrapperEnds(g, SendResult(r, req[g].hasTarget))
    /\ UNCHANGED << clockVars, clientVars, op, req, tokenResp, calls, minted,
                    refreshCount, sendCount, checked, obtained,
                    refreshedAt, failedSince, waited >>

\* The wrapper's caller takes the outcome; g is free for another call.
Return(g) ==
    /\ ~Crashed
    /\ UNCHANGED << timeVars, decodeVars >>
    /\ errText' = [errText EXCEPT ![g] = NotAsked]
    /\ pc[g] = "done"
    /\ pc' = [pc EXCEPT ![g] = "idle"]
    /\ op' = [op EXCEPT ![g] = "none"]
    /\ req' = [req EXCEPT ![g] = NoRequest]
    /\ tokenResp' = [tokenResp EXCEPT ![g] = NoToken]
    /\ result' = [result EXCEPT ![g] = NoResult]
    /\ resp' = [resp EXCEPT ![g] = NoResponse]
    /\ decoded' = [decoded EXCEPT ![g] = FALSE]
    /\ refreshCount' = [refreshCount EXCEPT ![g] = 0]
    /\ sendCount' = [sendCount EXCEPT ![g] = 0]
    /\ senderCalls' = [senderCalls EXCEPT ![g] = 0]
    /\ checked' = [checked EXCEPT ![g] = NotChecked]
    /\ obtained' = [obtained EXCEPT ![g] = NoToken]
    /\ waited' = [waited EXCEPT ![g] = NotWaited]
    /\ UNCHANGED << clockVars, clientVars, mutex, calls, minted, refreshedAt,
                    failedSince >>

\* The caller of a wrapper calls Error() on an ErrorResponse it was handed:
\* the error the sender returned for a non-2xx response or, embedded, the
\* Error field of a PayoutItemResponse decoded from the body of a 2xx one.
CallError(g, embedded) ==
    /\ ~Crashed
    /\ pc[g] = "done"
    /\ ~errText[g].called
    /\ IF embedded
       THEN /\ result[g].kind = "ok" /\ decoded[g]
            /\ errText' = [errText EXCEPT ![g] = Error(PayoutItemError(resp[g].body))]
       ELSE /\ result[g].kind = "structured"
            /\ errText' = [errText EXCEPT ![g] = Error(result[g].err)]
    /\ UNCHANGED << timeVars, decodeVars, clockVars, clientVars, mutex, pc, op,
                    req, tokenResp, result, calls, minted, resp, decoded,
                    refreshCount, sendCount, senderCalls, checked, obtained,
                    waited, refreshedAt, failedSince >>

\* Time passes.
Tick(step) ==
    /\ ~Crashed
    /\ UNCHANGED << timeVars, decodeVars, errText >>
    /\ ticks < MaxTicks
    /\ ticks' = ticks + 1
    /\ now' = now + step
    /\ UNCHANGED << clientVars, mutex, pc, op, req, tokenResp, result, calls,
                    minted, resp, decoded, refreshCount, sendCount,
                    senderCalls, checked, obtained, refreshedAt,
                    failedSince, waited >>

\* json.Unmarshal, or the program itself, calls UnmarshalJSON on the PTime.
Unmarshal(data) ==
    /\ ~Crashed
    /\ \E out \in {UnmarshalJSON(ptime, data)} :
           /\ ptime' = out.t
           /\ format' = out.format
           /\ err' = out.err
    /\ sdata' = data
    /\ before' = Before(ptime, sdata, err)
    /\ str' = NotCalled
    /\ UNCHANGED << senderVars, decodeVars >>

\* The program calls String on the PTime, or on a nil *PTime.
CallString(onNil) ==
    /\ ~Crashed
    /\ \E p \in {IF onNil THEN NilPTime ELSE Pointer(ptime)} :
           str' = Text(String(p), p)
    /\ UNCHANGED << senderVars, decodeVars, ptime, sdata, format, err, before >>

\* json.Unmarshal of a token response calls UnmarshalJSON on its ExpiresIn.
DecodeExpiresIn(b) ==
    /\ ~Crashed
    /\ \E out \in {ExpirationTimeUnmarshalJSON(expiresIn, b)} :
           /\ expiresIn' = out.e
           /\ decodeErr' = out.err
    /\ raw' = b
    /\ held' = Held(expiresIn, raw, decodeErr)
    /\ UNCHANGED << senderVars, timeVars >>

\* The steps of callers C, whose calls go to the wrappers W and are answered
\* with the responses R.
NextOf(C, W, R) ==
    \/ \E g \in C, w \in W, built \in BOOLEAN : Call(g, w, built)
    \/ \E g \in C : Lock(g)
    \/ \E g \in C : Check(g)
    \/ \E g \in C, outcome \in TokenOutcomes, lifetime \in Lifetimes :
          TokenEndpointResponds(g, outcome, lifetime)
    \/ \E g \in C : StoreToken(g)
    \/ \E g \in C : StoreExpiry(g)
    \/ \E g \in C : Transmit(g)
    \/ \E g \in C, r \in R : Respond(g, r)
    \/ \E g \in C : Return(g)
    \/ \E step \in TickSteps : Tick(step)

\* Concurrent callers sharing the client, through two of the wrappers and
\* with three of the responses.
ConcurrentWrappers == {"GetOrder", "VoidAuthorization"}
ConcurrentResponses == {r \in Responses : r.transport \/ r.body.form = "json"}
Next == NextOf(Callers, ConcurrentWrappers, ConcurrentResponses)
Spec == Init /\ [][Next]_vars

\* One caller, through every endpoint wrapper, with every response.
NextEndpoints ==
    \/ NextOf({1}, Wrappers, Responses)
    \/ \E g \in {1}, embedded \in BOOLEAN : CallError(g, embedded)
SpecEndpoints == Init /\ [][NextEndpoints]_vars

\* Timestamps decoded into a PTime, one after the other, and formatted back.
NextTime ==
    \/ \E data \in Inputs : Unmarshal(data)
    \/ \E onNil \in BOOLEAN : CallString(onNil)
SpecTime == Init /\ [][NextTime]_vars

\* Concurrent callers under the scheduling of the program: a goroutine that
\* can take a step of get_valid_token takes it, sync.Mutex hands the lock
\* to a caller that keeps waiting for it, and the token endpoint answers
\* every credential-grant request.
LiveWrappers == {"VoidAuthorization"}
LiveResponses == {r \in Responses : r.status = 204}
NextLive == NextOf(Callers, LiveWrappers, LiveResponses)
Fairness ==
    \A g \in Callers :
        /\ SF_vars(Lock(g))
        /\ WF_vars(Check(g))
        /\ WF_vars(\E outcome \in TokenOutcomes, lifetime \in Lifetimes :
                      TokenEndpointResponds(g, outcome, lifetime))
        /\ WF_vars(StoreToken(g))
        /\ WF_vars(StoreExpiry(g))
SpecLive == Init /\ [][NextLive]_vars /\ Fairness

\* Lifetimes decoded into an ExpiresIn, one after the other.
NextExpiresIn == \E b \in Lifetimes64 : DecodeExpiresIn(b)
SpecExpiresIn == Init /\ [][NextExpiresIn]_vars

\* ----------------------------------------------------------- properties
\* The callers whose get_valid_token has returned in their current call.
Returned(g) == pc[g] \in {"send", "await", "done"} /\ checked[g].done
Received2xx(g) ==
    sendCount[g] > 0 /\ ~resp[g].transport
    /\ resp[g].status >= 200 /\ resp[g].status < 300
ReceivedNon2xx(g) ==
    sendCount[g] > 0 /\ ~resp[g].transport
    /\ (resp[g].status < 200 \/ resp[g].status >= 300)

\* C1: a call of get_valid_token made while a token is cached issues exactly
\* one refresh request before it returns when the cached expiry is less than
\* 60 seconds after now, and otherwise issues none and returns the cached
\* token unchanged.
C1_RefreshDecision ==
    \A g \in Callers :
        (checked[g].done /\ checked[g].Token # NoToken) =>
            /\ refreshCount[g] <= 1
            /\ checked[g].remaining < 60 => refreshCount[g] = 1
            /\ checked[g].remaining >= 60 =>
                  /\ refreshCount[g] = 0
                  /\ Returned(g)
                  /\ obtained[g] = checked[g].Token
                  /\ req[g].Authorization = checked[g].Token.Token

\* One caller refreshed a token that had less than 60 seconds left while
\* another reused a token that had exactly 60 seconds left.
C1_Witness ==
    \E g, h \in Callers :
        /\ Returned(g) /\ checked[g].Token # NoToken
        /\ checked[g].remaining < 60 /\ refreshCount[g] = 1
        /\ Returned(h) /\ checked[h].Token # NoToken
        /\ checked[h].remaining = 60 /\ refreshCount[h] = 0

\* C2: the client starts with no cached token; a call that finds the cache
\* empty acquires a token from the token endpoint before it transmits, and
\* every transmitted request carries a bearer token.
C2_EmptyCache ==
    /\ minted = 0 => Token = NoToken /\ tokenExpiresAt = 0
    /\ \A g \in Callers :
          /\ (checked[g].done /\ checked[g].Token = NoToken) =>
                refreshCount[g] = 1
          /\ sendCount[g] > 0 =>
                /\ req[g].Authorization # 0
                /\ req[g].Authorization <= minted
                /\ checked[g].Token = NoToken => obtained[g] = tokenResp[g]

\* The first call found the cache empty and its request is in flight with
\* the first token minted.
C2_Witness ==
    \E g \in Callers :
        /\ pc[g] = "await" /\ checked[g].Token = NoToken
        /\ req[g].Authorization = 1 /\ calls = 1

CacheConsistent ==
    IF Token = NoToken THEN tokenExpiresAt = 0
    ELSE /\ Token.Token \in DOMAIN refreshedAt
         /\ tokenExpiresAt = refreshedAt[Token.Token] + Token.ExpiresIn

\* C4: whenever a caller can observe the cache, the cached token and the
\* cached expiry come from the same successful refresh, and the expiry is
\* the instant of that refresh plus the lifetime the server reported.
C4_AtomicReplacement ==
    /\ (\E g \in Callers : pc[g] = "check") => CacheConsistent
    /\ (\A g \in Callers : pc[g] \notin {"store", "expiry"}) => CacheConsistent

\* A caller observes the cache after a second refresh replaced the token of
\* the first.
C4_Witness ==
    \E g \in Callers :
        /\ pc[g] = "check" /\ minted >= 2 /\ Token.Token = minted
        /\ tokenExpiresAt > 0

\* C5: a refresh that the token endpoint fails makes get_valid_token return
\* an error, leaves the cached token and expiry as they were, and the next
\* call attempts a refresh again.
C5_RefreshFailure ==
    [][\A g \in Callers :
          /\ pc[g] = "refresh" =>
                Token' = Token /\ tokenExpiresAt' = tokenExpiresAt
          /\ (pc[g] = "refresh" /\ pc'[g] \notin {"refresh", "store"}) =>
                /\ pc'[g] = "done" /\ result'[g].kind = "token"
                /\ sendCount'[g] = 0 /\ failedSince'
                /\ Token = checked[g].Token
          /\ (failedSince /\ pc[g] = "check" /\ pc'[g] # "check") =>
                pc'[g] = "refresh" /\ refreshCount'[g] = 1]_vars

\* A refresh failed and left a stale token cached, and the next call has
\* issued a refresh request of its own.
C5_Witness ==
    \E g, h \in Callers :
        /\ pc[g] = "done" /\ result[g].kind = "token"
        /\ checked[g].Token # NoToken /\ Token = checked[g].Token
        /\ pc[h] = "refresh" /\ failedSince

\* C6 as stated: a non-2xx response yields a structured error carrying the
\* response's status and the body's name, message and details; only a
\* non-2xx response does; and a 2xx response is reported neither as a
\* structured error nor as a transport or serialization failure.
C6_Original ==
    \A g \in Callers :
        (pc[g] = "done" /\ sendCount[g] > 0) =>
            /\ ReceivedNon2xx(g) =>
                  /\ result[g].kind = "structured"
                  /\ result[g].err.Response = resp[g].status
                  /\ result[g].err.Name = resp[g].body.name
                  /\ result[g].err.Message = resp[g].body.message
                  /\ result[g].err.Details = resp[g].body.details
            /\ result[g].kind = "structured" => ReceivedNon2xx(g)
            /\ Received2xx(g) => result[g].kind \notin {"structured", "transport"}

\* C6 amended: as stated, except that a 2xx response is never reported as a
\* structured error and is reported as a serialization failure exactly when
\* its body does not decode into a target that is present.
C6_ErrorMapping ==
    \A g \in Callers :
        (pc[g] = "done" /\ sendCount[g] > 0) =>
            /\ ReceivedNon2xx(g) =>
                  /\ result[g].kind = "structured"
                  /\ result[g].err.Response = resp[g].status
                  /\ result[g].err.Name = resp[g].body.name
                  /\ result[g].err.Message = resp[g].body.message
                  /\ result[g].err.Details = resp[g].body.details
            /\ result[g].kind = "structured" => ReceivedNon2xx(g)
            /\ resp[g].transport => result[g].kind = "transport"
            /\ Received2xx(g) =>
                  /\ result[g].kind \in {"ok", "transport"}
                  /\ result[g].kind = "transport" <=>
                        (req[g].hasTarget /\ resp[g].body.form # "json")

\* A 400 response with a field-level detail came back as a structured error.
C6_Witness ==
    \E g \in Callers :
        /\ pc[g] = "done" /\ resp[g].status = 400
        /\ result[g].kind = "structured"
        /\ result[g].err.Details = <<"amount">>

\* C7: UpdateOrder and VoidAuthorization send with no target, and a send
\* with no target returns no error on any 2xx response, an empty body
\* included, without decoding the body.
C7_NoContent ==
    \A g \in Callers :
        /\ (op[g] \in {"UpdateOrder", "VoidAuthorization"} /\ senderCalls[g] > 0) =>
              ~req[g].hasTarget
        /\ (pc[g] = "done" /\ Received2xx(g) /\ senderCalls[g] > 0
              /\ ~req[g].hasTarget) =>
              result[g].kind = "ok" /\ ~decoded[g]

\* UpdateOrder got a 204 with an empty body and returned no error.
C7_Witness ==
    \E g \in Callers :
        /\ pc[g] = "done" /\ op[g] = "UpdateOrder"
        /\ resp[g].status = 204 /\ resp[g].body.form = "empty"
        /\ result[g].kind = "ok"

\* C8: in every send the token is obtained before the bearer header is
\* attached and the header is attached before the request is transmitted; a
\* send whose token could not be obtained transmits nothing; the token
\* attached is the one cached when the expiry check or the refresh completed.
C8_SendOrdering ==
    \A g \in Callers :
        /\ sendCount[g] > 0 => req[g].Authorization # 0
        /\ req[g].Authorization # 0 =>
              /\ Returned(g)
              /\ obtained[g] # NoToken
              /\ req[g].Authorization = obtained[g].Token
              /\ obtained[g] = IF refreshCount[g] = 0 THEN checked[g].Token
                               ELSE tokenResp[g]
        /\ (checked[g].done /\ pc[g] = "done" /\ obtained[g] = NoToken) =>
              /\ result[g].kind = "token"
              /\ sendCount[g] = 0
        /\ result[g].kind = "token" => sendCount[g] = 0 /\ req[g].Authorization = 0

\* A request is in flight with the token its own refresh cached, while the
\* other caller's failed refresh ended its send with nothing transmitted.
C8_Witness ==
    \E g, h \in Callers :
        /\ pc[g] = "await" /\ refreshCount[g] = 1
        /\ req[g].Authorization = tokenResp[g].Token
        /\ pc[h] = "done" /\ result[h].kind = "token" /\ sendCount[h] = 0

\* C9: one invocation of an endpoint wrapper calls the sender at most once
\* and the sender transmits at most once; a failed transmission or a failed
\* refresh is returned to the wrapper's caller with no further request.
C9_NoRetry ==
    \A g \in Callers :
        /\ senderCalls[g] <= 1 /\ sendCount[g] <= 1 /\ refreshCount[g] <= 1
        /\ (Returned(g) /\ obtained[g] = NoToken) =>
              pc[g] = "done" /\ result[g].kind = "token" /\ sendCount[g] = 0
        /\ (sendCount[g] = 1 /\ pc[g] # "await") =>
              /\ pc[g] = "done"
              /\ result[g] = SendResult(resp[g], req[g].hasTarget)

\* A wrapper returned a transport failure after its one transmission.
C9_Witness ==
    \E g \in Callers :
        /\ pc[g] = "done" /\ resp[g].transport /\ result[g].kind = "transport"
        /\ sendCount[g] = 1 /\ senderCalls[g] = 1

InCriticalSection(g) == pc[g] \in {"check", "refresh", "store", "expiry"}

\* C10: the token lock is held only during the check-expiry / maybe-refresh
\* section: no caller holds it while its payload request is being sent or is
\* in flight, so payload requests of several callers are in flight together.
C10_LockScope ==
    /\ \A g \in Callers : mutex = g <=> InCriticalSection(g)
    /\ (\A g \in Callers : ~InCriticalSection(g)) => mutex = NoCaller

\* Two callers that both found a valid cached token have their payload
\* requests in flight at the same time.
C10_Witness ==
    /\ \A g \in Callers :
          /\ pc[g] = "await" /\ refreshCount[g] = 0
          /\ checked[g].Token # NoToken /\ checked[g].remaining >= 60
    /\ mutex = NoCaller

\* C11: the cached token and its expiry are changed only by a successful
\* refresh; a send that does not refresh, any answer to a payload request
\* and the endpoint wrappers' own code leave them unchanged.
C11_TokenFrame ==
    [][/\ (Token' # Token \/ tokenExpiresAt' # tokenExpiresAt) =>
             \E g \in Callers :
                 /\ tokenResp[g] # NoToken
                 /\ \/ /\ pc[g] = "store" /\ pc'[g] = "expiry"
                       /\ Token' = tokenResp[g]
                       /\ tokenExpiresAt' = tokenExpiresAt
                    \/ /\ pc[g] = "expiry" /\ pc'[g] = "send"
                       /\ Token' = Token
                       /\ tokenExpiresAt' = now + tokenResp[g].ExpiresIn
       /\ \A g \in Callers :
             (pc'[g] # pc[g] /\ pc[g] \in {"idle", "lock", "check", "refresh",
                                           "send", "await", "done"}) =>
                 Token' = Token /\ tokenExpiresAt' = tokenExpiresAt]_vars

\* A send that did not refresh got a non-2xx answer, and the token it found
\* in the cache is still cached.
C11_Witness ==
    \E g \in Callers :
        /\ pc[g] = "done" /\ refreshCount[g] = 0 /\ ReceivedNon2xx(g)
        /\ Token # NoToken /\ Token = checked[g].Token
        /\ tokenExpiresAt = now + checked[g].remaining

\* ---------------------------------------------- timestamps: what a text says
\* The three inputs UnmarshalJSON takes as absent.
AbsentInputs == {Null, EmptyString, QuotedZero}
HasDot(data) == \E i \in DOMAIN data : data[i] = "."
HasZ(data) == \E i \in DOMAIN data : data[i] = "Z"
EndsInZ(data) == Len(data) >= 3 /\ data[Len(data) - 1] = "Z"

\* The text between the quotes of a JSON string, its hour written with two
\* digits, and the class of each of its characters.
Quoted(data) == Len(data) >= 2 /\ data[1] = "\"" /\ data[Len(data)] = "\""
Unquoted(data) == [i \in 1 .. Len(data) - 2 |-> data[i + 1]]
TwoDigitHour(w) ==
    IF Len(w) >= 13 /\ w[12] \in DigitChars /\ w[13] = ":"
    THEN SubSeq(w, 1, 11) \o <<"0">> \o SubSeq(w, 12, Len(w))
    ELSE w
Written(data) == TwoDigitHour(Unquoted(data))
Shape(w) == [i \in 1 .. Len(w) |-> IF w[i] \in DigitChars THEN "d" ELSE w[i]]
Field(w, from, to) ==
    LET digit(i) == DigitValue(w[i])
    IN  IF to = from + 1 THEN 10 * digit(from) + digit(to)
        ELSE IF to = from + 2
             THEN 100 * digit(from) + 10 * digit(from + 1) + digit(to)
        ELSE 1000 * digit(from) + 100 * digit(from + 1)
               + 10 * digit(from + 2) + digit(to)

\* dddd-dd-ddTdd:dd:dd, a date of the calendar and a time of the day.
ClockShape ==
    << "d", "d", "d", "d", "-", "d", "d", "-", "d", "d", "T",
       "d", "d", ":", "d", "d", ":", "d", "d" >>
WrittenClock(w) ==
    /\ Len(w) >= 19 /\ SubSeq(Shape(w), 1, 19) = ClockShape
    /\ Field(w, 6, 7) \in 1 .. 12
    /\ Field(w, 9, 10) \in 1 .. DaysIn(Field(w, 6, 7), Field(w, 1, 4))
    /\ Field(w, 12, 13) < 24 /\ Field(w, 15, 16) < 60 /\ Field(w, 18, 19) < 60

\* The texts of layout A (milliseconds and Z), B (whole seconds and Z) and
\* C (whole seconds and a numeric offset).
TextInLayoutA(w) ==
    /\ WrittenClock(w) /\ Len(w) = 24
    /\ SubSeq(Shape(w), 20, 24) = <<".", "d", "d", "d", "Z">>
TextInLayoutB(w) == WrittenClock(w) /\ Len(w) = 20 /\ w[20] = "Z"
TextInLayoutC(w) ==
    /\ WrittenClock(w) /\ Len(w) = 25 /\ w[20] \in {"+", "-"}
    /\ SubSeq(Shape(w), 21, 25) = <<"d", "d", ":", "d", "d">>
InLayoutA(data) == Quoted(data) /\ TextInLayoutA(Written(data))
InLayoutB(data) == Quoted(data) /\ TextInLayoutB(Written(data))
InLayoutC(data) == Quoted(data) /\ TextInLayoutC(Written(data))
Accepted(data) == InLayoutA(data) \/ InLayoutB(data) \/ InLayoutC(data)
InLayout(layout, data) ==
    \/ layout = DateFormat /\ InLayoutA(data)
    \/ layout = DateFormatNoDot /\ InLayoutB(data)
    \/ layout = DateFormatWithOffset /\ InLayoutC(data)

\* What an accepted text denotes: its day (counted from January 1 of year
\* 1), the second of the day on its clock, its milliseconds and its offset
\* in seconds east of UTC.
WrittenDay(data) ==
    DaysSinceEpoch(Field(Written(data), 1, 4), Field(Written(data), 6, 7),
                   Field(Written(data), 9, 10))
WrittenSecond(data) ==
    Field(Written(data), 12, 13) * 3600 + Field(Written(data), 15, 16) * 60
      + Field(Written(data), 18, 19)
WrittenMillis(data) ==
    IF InLayoutA(data) THEN Field(Written(data), 21, 23) ELSE 0
WrittenOffset(data) ==
    IF ~InLayoutC(data) THEN 0
    ELSE LET secs == Field(Written(data), 21, 22) * 3600
                       + Field(Written(data), 24, 25) * 60
         IN  IF Written(data)[20] = "-" THEN 0 - secs ELSE secs
\* The seconds from midnight UTC of the written day to the instant denoted.
WrittenUTCSecond(data) == WrittenSecond(data) - WrittenOffset(data)
\* t is the instant the text denotes.
Denotes(t, data) ==
    /\ (t.day - WrittenDay(data)) * 86400 + t.sod = WrittenUTCSecond(data)
    /\ t.nsec = WrittenMillis(data) * 1000000
\* The time an accepted text denotes, in the offset it is written in.
RefTime(data) ==
    Time(WrittenDay(data) + (WrittenUTCSecond(data) \div 86400),
         WrittenUTCSecond(data) % 86400, WrittenMillis(data) * 1000000,
         WrittenOffset(data))
\* Two accepted texts denote the same instant.
SameInstant(d, e) ==
    /\ RefTime(d).day = RefTime(e).day /\ RefTime(d).sod = RefTime(e).sod
    /\ RefTime(d).nsec = RefTime(e).nsec

\* UnmarshalJSON has been called, with an input that is not absent.
Parsed1 == err # "none" /\ sdata \notin AbsentInputs

\* C12: for every input that is not absent the parser selects layout A
\* when the text has a decimal point and ends in Z, layout B when it has no
\* decimal point and ends in Z, and layout C whenever it has no Z, with or
\* without a decimal point.
C12_LayoutSelection ==
    Parsed1 =>
        /\ (HasDot(sdata) /\ EndsInZ(sdata)) => format = DateFormat
        /\ (~HasDot(sdata) /\ EndsInZ(sdata)) => format = DateFormatNoDot
        /\ ~HasZ(sdata) => format = DateFormatWithOffset

\* C13 as stated: parsing an absent input returns no error and leaves the
\* zero timestamp.
C13_Original ==
    (err # "none" /\ sdata \in AbsentInputs) => (err = "nil" /\ IsZero(ptime))

\* C13: parsing the empty string, null or the quoted "0" returns no error,
\* selects no layout and leaves the receiver as it found it: the zero
\* timestamp in a fresh value, the timestamp held before otherwise.
C13_Absent ==
    (err # "none" /\ sdata \in AbsentInputs) =>
        /\ err = "nil" /\ format = NoFormat
        /\ ptime = before.t
        /\ before.err = "none" => IsZero(ptime)
C13_Witness ==
    /\ sdata = Null /\ err = "nil"
    /\ before.sdata = RegularDate /\ before.err = "nil"
    /\ ptime = before.t /\ ~IsZero(ptime)

\* C14: every input that is not absent and does not match the layout
\* selected for it gets a parse error, never success; and a parse error is
\* returned only for inputs that are neither empty nor null.
C14_Malformed ==
    /\ (Parsed1 /\ ~InLayout(format, sdata)) => err = "error"
    /\ err = "error" => (sdata \notin AbsentInputs /\ sdata # << >>)

\* C15: an input in layout A parses to the UTC instant its digits denote
\* with its milliseconds kept, an input in layout B to the UTC instant its
\* digits denote with no sub-second part.
C15_UTCLayouts ==
    /\ InLayoutA(sdata) =>
          /\ err = "nil" /\ ptime.offset = 0 /\ Denotes(ptime, sdata)
          /\ ptime.nsec = Field(Written(sdata), 21, 23) * 1000000
    /\ InLayoutB(sdata) =>
          /\ err = "nil" /\ ptime.offset = 0 /\ Denotes(ptime, sdata)
          /\ ptime.nsec = 0
C15_Witness ==
    /\ sdata = RegularDate /\ err = "nil"
    /\ ptime = Time(736920, 19 * 3600 + 14 * 60 + 4, 543000000, 0)

\* C16: an input in layout C parses without error to a value whose offset
\* is the one written and whose instant is the written clock time at that
\* offset.
C16_OffsetLayout ==
    InLayoutC(sdata) =>
        /\ err = "nil"
        /\ ptime.offset = WrittenOffset(sdata)
        /\ (ptime.day - WrittenDay(sdata)) * 86400 + ptime.sod
              = WrittenSecond(sdata) - ptime.offset
        /\ ptime.nsec = 0
C16_Witness ==
    /\ sdata = DateWithOffset /\ err = "nil"
    /\ ptime.offset = 0 - 7 * 3600
    /\ ptime.day = 736920 /\ ptime.sod = 19 * 3600 + 13 * 60 + 29

\* String has been called on a PTime that holds a parsed timestamp.
Formatted == str.called /\ ~str.nil /\ err = "nil" /\ Accepted(sdata)

\* C17 as stated: a parsed timestamp is formatted in layout B, whichever
\* layout it was parsed from.
C17_Original == Formatted => TextInLayoutB(str.text)

\* C17: a parsed timestamp is formatted in layout A, with the milliseconds
\* of the value as three digits before the Z, whichever layout it was
\* parsed from; the zero timestamp is formatted as the empty text.
C17_Formatting ==
    Formatted =>
        IF IsZero(ptime) THEN str.text = << >>
        ELSE /\ TextInLayoutA(str.text)
             /\ Field(str.text, 21, 23) = ptime.nsec \div 1000000
C17_Witness ==
    /\ Formatted /\ sdata = DateWithOffset
    /\ str.text = << "2", "0", "1", "8", "-", "0", "8", "-", "1", "5", "T",
                   "1", "2", ":", "1", "3", ":",
                   "2", "9", ".", "0", "0", "0", "Z" >>

\* C18: two inputs that denote the same instant parse to values that
\* compare equal, whichever layouts they are written in, and every parsed
\* value carries the offset of its text.
C18_Equality ==
    /\ (/\ Accepted(sdata) /\ Accepted(before.sdata)
         /\ SameInstant(sdata, before.sdata)) =>
            (err = "nil" /\ before.err = "nil" /\ Equal(ptime, before.t))
    /\ Accepted(sdata) => ptime.offset = WrittenOffset(sdata)
C18_Witness ==
    /\ sdata = DateWithOffset /\ before.sdata = SameInstantNoDot
    /\ Equal(ptime, before.t)
    /\ ptime.offset = 0 - 7 * 3600 /\ before.t.offset = 0

\* C19: an input in one of the three layouts parses to the same result
\* every time, into a fresh value, into a value that holds the result of
\* a previous parse of it, and into a value that holds anything else.
C19_Deterministic ==
    Accepted(sdata) =>
        /\ err = "nil" /\ ptime = RefTime(sdata)
        /\ before.sdata = sdata => (before.err = "nil" /\ ptime = before.t)
C19_Witness ==
    /\ sdata = DateWithOffset /\ before.sdata = DateWithOffset
    /\ err = "nil" /\ before.err = "nil"
    /\ ptime = before.t /\ ~IsZero(ptime)

\* C20: RefundCapture and CaptureAuthorization hand the authenticated
\* sender a request whose Prefer header is "return=representation"; no
\* other endpoint wrapper, RefundPayment included, sets a Prefer header.
C20_PreferHeader ==
    \A g \in Callers :
        senderCalls[g] > 0 =>
            req[g].Prefer =
                IF op[g] \in {"RefundCapture", "CaptureAuthorization"}
                THEN "return=representation" ELSE "none"
C20_Witness ==
    \E g \in Callers :
        /\ op[g] = "RefundCapture" /\ senderCalls[g] > 0 /\ sendCount[g] > 0
        /\ req[g].Prefer = "return=representation"

\* ------------------------------------------- lifetimes: what a text says
\* The text of a lifetime, without the quotes of a JSON string.
Bare(b) == IF Quoted(b) THEN Unquoted(b) ELSE b
SignedMagnitude(s) ==
    IF s # << >> /\ s[1] = "-" THEN [i \in 1 .. Len(s) - 1 |-> s[i + 1]] ELSE s
\* s is an integer written in decimal: an optional minus sign and digits,
\* with no leading zero.
IsDecimalInteger(s) ==
    LET d == SignedMagnitude(s)
    IN  /\ d # << >> /\ \A i \in DOMAIN d : d[i] \in DigitChars
        /\ Len(d) = 1 \/ d[1] # "0"
\* d is at most limit, both of the same length.
AtMost(d, limit) ==
    \/ d = limit
    \/ \E i \in DOMAIN d :
          /\ DigitValue(d[i]) < DigitValue(limit[i])
          /\ \A j \in 1 .. i - 1 : d[j] = limit[j]
\* The decimal integer s is in the range of an int64.
FitsInt64(s) ==
    LET d == SignedMagnitude(s)
    IN  \/ Len(d) < 19
        \/ Len(d) = 19 /\ AtMost(d, IF s[1] = "-" THEN MinInt64Magnitude ELSE MaxInt64)
IsLifetime(b) == IsDecimalInteger(Bare(b)) /\ FitsInt64(Bare(b))
\* The integer a lifetime text denotes.
RefInt64(b) ==
    [neg |-> Bare(b)[1] = "-" /\ SignedMagnitude(Bare(b)) # <<"0">>,
     digits |-> SignedMagnitude(Bare(b))]

\* C21: expires_in decodes to the integer its text denotes, the same for a
\* JSON number and for a quoted decimal string; a value that is not an
\* integer of 64 bits makes the decoding fail and leaves the lifetime held
\* before unchanged.
C21_LifetimeDecoding ==
    decodeErr # "none" =>
        /\ IsLifetime(raw) => (decodeErr = "nil" /\ expiresIn = RefInt64(raw))
        /\ (/\ IsLifetime(raw) /\ IsLifetime(held.raw)
             /\ Bare(raw) = Bare(held.raw)) => expiresIn = held.e
        /\ ~IsLifetime(raw) => (decodeErr = "error" /\ expiresIn = held.e)
C21_Witness ==
    /\ raw = Quoted3600 /\ held.raw = Bare3600
    /\ decodeErr = "nil" /\ held.err = "nil"
    /\ expiresIn = held.e /\ expiresIn.digits = <<"3", "6", "0", "0">>

\* get_valid_token of g is running, and it is over.
InGetValidToken(g) == pc[g] \in {"lock", "check", "refresh", "store", "expiry"}
GetValidTokenOver(g) == pc[g] \in {"send", "await", "done", "idle"}

\* C22: a caller whose get_valid_token is over, with a token or with the
\* error of a failed refresh, does not hold the token lock; and every
\* get_valid_token of every caller is over eventually.
C22_Progress ==
    /\ [](\A g \in Callers : GetValidTokenOver(g) => mutex # g)
    /\ \A g \in Callers : InGetValidToken(g) ~> GetValidTokenOver(g)
\* A refresh failed, its caller has the error and the lock is free; the
\* other caller, which arrived during that refresh, has refreshed since.
C22_Witness ==
    \E g \in Callers, h \in Callers :
        /\ pc[g] = "done" /\ result[g].kind = "token"
        /\ pc[h] = "send" /\ refreshCount[h] > 0
        /\ mutex = NoCaller

\* C23: the token a caller attaches to its request is, at the instant the
\* caller checked its expiry or stored it after minting, a cached token
\* that has not expired and, when the server reported a lifetime of more
\* than 60 seconds for it, has at least 60 seconds left; the request is
\* transmitted with that token.
C23_ValidityMargin ==
    [][\A g \in Callers :
          /\ (pc[g] \in {"check", "expiry"} /\ pc'[g] = "send") =>
                /\ Token' # NoToken
                /\ req'[g].Authorization = Token'.Token
                /\ tokenExpiresAt' - now > 0
                /\ Token'.ExpiresIn > 60 => tokenExpiresAt' - now >= 60
          /\ (pc[g] = "send" /\ pc'[g] = "await") =>
                /\ req'[g] = req[g]
                /\ req[g].Authorization = obtained[g].Token
                /\ obtained[g] # NoToken]_vars
\* A request in flight with a token that had exactly 60 seconds left when
\* its expiry was checked.
C23_Witness ==
    \E g \in Callers :
        /\ pc[g] = "await" /\ refreshCount[g] = 0
        /\ checked[g].Token.ExpiresIn = 90 /\ checked[g].remaining = 60
        /\ req[g].Authorization = checked[g].Token.Token

\* C24: a wrapper whose request construction returned an error hands that
\* error to its caller, without calling the authenticated sender and
\* without using the request it did not get.
C24_ConstructionFailure ==
    \A g \in Callers :
        (op[g] # "none" /\ senderCalls[g] = 0) =>
            /\ pc[g] = "done" /\ result[g].kind = "build"
            /\ refreshCount[g] = 0 /\ sendCount[g] = 0

\* C25: UnmarshalJSON returns success or an error for every byte sequence,
\* the empty one and those of one byte included; it never faults.
C25_Totality == err \in {"none", "nil", "error"}

\* C26: given null, "" or "0", UnmarshalJSON returns success and leaves the
\* receiver exactly as it was; a timestamp held from an earlier parse is
\* still held.
C26_AbsentNoOp ==
    (err # "none" /\ sdata \in AbsentInputs) =>
        (err = "nil" /\ ptime = before.t)
C26_Witness ==
    /\ sdata = QuotedZero /\ err = "nil"
    /\ before.sdata = DateWithOffset /\ before.err = "nil"
    /\ ptime = before.t /\ ptime.offset = 0 - 7 * 3600

\* C27: when UnmarshalJSON returns an error the receiver holds exactly the
\* value it held before the call.
C27_UnchangedOnError == err = "error" => ptime = before.t
C27_Witness ==
    /\ sdata = NotADate /\ err = "error"
    /\ before.sdata = RegularDate /\ before.err = "nil"
    /\ ptime = before.t /\ ~IsZero(ptime)

\* A text between quotes, as a JSON string.
Requoted(text) == <<"\"">> \o text \o <<"\"">>

\* C28: String of a nil or zero PTime is the empty text; of any other
\* PTime, also one parsed from a layout C text with an offset, it is a text
\* that, read as a UTC timestamp, denotes the instant of the value to the
\* millisecond.
C28_FormatInstant ==
    str.called =>
        IF str.nil \/ IsZero(ptime) THEN str.text = << >>
        ELSE /\ InLayoutA(Requoted(str.text))
             /\ RefTime(Requoted(str.text)).day = ptime.day
             /\ RefTime(Requoted(str.text)).sod = ptime.sod
             /\ RefTime(Requoted(str.text)).nsec
                   = (ptime.nsec \div 1000000) * 1000000

\* C29: the layout UnmarshalJSON uses depends only on whether the text
\* contains a Z and whether it contains a decimal point; a text with a
\* decimal point and no Z gets the layout with milliseconds and Z, and is
\* rejected with an error.
C29_TwoFlags ==
    Parsed1 =>
        /\ format = IF HasZ(sdata) /\ ~HasDot(sdata) THEN DateFormatNoDot
                    ELSE IF ~HasZ(sdata) /\ ~HasDot(sdata)
                         THEN DateFormatWithOffset
                    ELSE DateFormat
        /\ (HasDot(sdata) /\ ~HasZ(sdata)) =>
              (format = DateFormat /\ err = "error")

\* C30: Error() on an ErrorResponse handed to a caller, the one the sender
\* returned for a non-2xx response or one embedded in a decoded DTO,
\* returns a string; it never dereferences an absent response.
C30_ErrorTotal ==
    \A g \in Callers :
        errText[g].called =>
            /\ ~errText[g].panicked
            /\ result[g].kind = "structured" =>
                  /\ errText[g].status = resp[g].status
                  /\ errText[g].message = resp[g].body.message

====
